---- MODULE Spec2Model ----
(***************************************************************************)
(* A model of magic-opener's Git remote URL parser (src/src/parser.rs)     *)
(* and of its repository URL resolver (src/src/repo.rs).                   *)
(*                                                                         *)
(* Strings are sequences of one-character strings, so that prefixes,       *)
(* suffixes, character classes and ASCII case folding are computed the     *)
(* way the Rust code computes them.                                        *)
(***************************************************************************)
EXTENDS Naturals, Sequences, FiniteSets, TLC

VARIABLES
    inp,      \* parser run: the components the input string was built from
    data,     \* PullParser.data: the unconsumed rest of the input
    state,    \* parse_git_url: `state`
    host,     \* parse_git_url: `host`, an Option
    result,   \* parse_git_url: `result`, an Option of (org, name)
    done,     \* parse_git_url has returned
    ret,      \* parse_git_url's return value, an Option of (host, org, name)
    pc,       \* resolver: position in GitRepository::url
    paths,    \* resolver: the arguments
    isGit,    \* resolver: `is_git`
    repo,     \* resolver: `r`, an Option of GitRepository
    calls,    \* resolver: the git commands issued so far with their results
    out       \* resolver: what the entry point returned, Ok(text) or an error

parserVars == <<inp, data, state, host, result, done, ret>>
resolverVars == <<pc, paths, isGit, repo, calls, out>>
vars == <<inp, data, state, host, result, done, ret,
          pc, paths, isGit, repo, calls, out>>

---------------------------------------------------------------------------
(* Options, characters and strings                                         *)

None == [some |-> FALSE]
Some(v) == [some |-> TRUE, val |-> v]

UpperSeq ==
    <<"A","B","C","D","E","F","G","H","I","J","K","L","M",
      "N","O","P","Q","R","S","T","U","V","W","X","Y","Z">>
LowerSeq ==
    <<"a","b","c","d","e","f","g","h","i","j","k","l","m",
      "n","o","p","q","r","s","t","u","v","w","x","y","z">>
UpperSet == {UpperSeq[i] : i \in 1..26}
LowerSet == {LowerSeq[i] : i \in 1..26}
DigitSet == {"0","1","2","3","4","5","6","7","8","9"}

is_ascii_alphanumeric(c) == c \in UpperSet \cup LowerSet \cup DigitSet
is_ascii_digit(c) == c \in DigitSet
is_ascii_hexdigit(c) ==
    c \in DigitSet \cup {"a","b","c","d","e","f","A","B","C","D","E","F"}

to_ascii_lowercase(c) ==
    IF c \in UpperSet
      THEN LowerSeq[CHOOSE i \in 1..26 : UpperSeq[i] = c]
      ELSE c

eq_ignore_ascii_case(a, b) ==
    /\ Len(a) = Len(b)
    /\ \A i \in 1..Len(a) : to_ascii_lowercase(a[i]) = to_ascii_lowercase(b[i])

MinOf(S) == CHOOSE i \in S : \A j \in S : i <= j

Rep(c, k) == [i \in 1..k |-> c]

\* s[i..] and s[..i] with 0-based Rust offsets
From(s, i) == SubSeq(s, i + 1, Len(s))
UpTo(s, i) == SubSeq(s, 1, i)

starts_with(s, p) == Len(s) >= Len(p) /\ UpTo(s, Len(p)) = p
ends_with(s, p) == Len(s) >= Len(p) /\ From(s, Len(s) - Len(p)) = p

---------------------------------------------------------------------------
(* src/src/parser.rs                                                       *)

DOTGIT == <<".","g","i","t">>
SLASH == <<"/">>

is_org_char(c) == is_ascii_alphanumeric(c) \/ c = "-" \/ c = "_"

is_name_char(c) == is_ascii_alphanumeric(c) \/ c = "-" \/ c = "_" \/ c = "."

is_hostname_char(c) == is_ascii_alphanumeric(c) \/ c = "-" \/ c = "."

\* the character predicate that span and take_while are called with
pred_holds(pred, c) ==
    CASE pred = "is_org_char" -> is_org_char(c)
      [] pred = "is_name_char" -> is_name_char(c)
      [] pred = "is_hostname_char" -> is_hostname_char(c)
      [] pred = "is_ascii_digit" -> is_ascii_digit(c)

\* span: the maximal prefix whose characters satisfy pred, and the rest
span(s, pred) ==
    LET bad == {i \in 1..Len(s) : ~pred_holds(pred, s[i])}
        n == IF bad = {} THEN Len(s) ELSE MinOf(bad) - 1
    IN  <<UpTo(s, n), From(s, n)>>

split_org(s) ==
    LET sp == span(s, "is_org_char")
    IN  IF sp[1] = <<>> \/ eq_ignore_ascii_case(sp[1], <<"n","o","n","e">>)
          THEN None
          ELSE Some(sp)

\* mutant: the suffix compared byte for byte
name_suffix_is_dotgit_exact(suffix) == suffix = DOTGIT

\* the comparison split_name applies to the last four characters of the name
name_suffix_is_dotgit(suffix) == eq_ignore_ascii_case(suffix, DOTGIT)

split_name(s) ==
    LET sp == span(s, "is_name_char")
        name0 == sp[1]
        i == Len(name0) - 4
        sp2 == IF Len(name0) >= 4 /\ name_suffix_is_dotgit(From(name0, i))
                 THEN <<UpTo(s, i), From(s, i)>>
                 ELSE sp
    IN  IF sp2[1] = <<>> \/ sp2[1] = <<".">> \/ sp2[1] = <<".", ".">>
          THEN None
          ELSE Some(sp2)

split_org_name(s) ==
    LET o == split_org(s)
    IN  IF ~o.some THEN None
        ELSE IF ~starts_with(o.val[2], SLASH) THEN None
        ELSE LET n == split_name(From(o.val[2], 1))
             IN  IF ~n.some THEN None
                 ELSE Some([org |-> o.val[1], name |-> n.val[1], rest |-> n.val[2]])

Literal(s) == [kind |-> "Literal", s |-> s]
CaseFold(s) == [kind |-> "CaseFold", s |-> s]

HTTPS == <<"h","t","t","p","s",":","/","/">>
HTTP == <<"h","t","t","p",":","/","/">>
GITSCHEME == <<"g","i","t",":","/","/">>
SSHSCHEME == <<"s","s","h",":","/","/">>
GITAT == <<"g","i","t","@">>
REPOS == <<"/","r","e","p","o","s","/">>
WWW == <<"w","w","w",".">>

\* mutant: the `git@` username matched in any ASCII case
START_PATTERNS_git_casefold ==
    << [tokens |-> <<CaseFold(HTTPS)>>, transition |-> "Http"],
       [tokens |-> <<CaseFold(HTTP)>>, transition |-> "Http"],
       [tokens |-> <<CaseFold(GITSCHEME)>>, transition |-> "OrgNameGit"],
       [tokens |-> <<CaseFold(GITAT)>>, transition |-> "OrgNameGit"],
       [tokens |-> <<CaseFold(SSHSCHEME), CaseFold(GITAT)>>,
        transition |-> "OrgNameGit"] >>

START_PATTERNS ==
    << [tokens |-> <<CaseFold(HTTPS)>>, transition |-> "Http"],
       [tokens |-> <<CaseFold(HTTP)>>, transition |-> "Http"],
       [tokens |-> <<CaseFold(GITSCHEME)>>, transition |-> "OrgNameGit"],
       [tokens |-> <<Literal(GITAT)>>, transition |-> "OrgNameGit"],
       [tokens |-> <<CaseFold(SSHSCHEME), Literal(GITAT)>>,
        transition |-> "OrgNameGit"] >>

\* PullParser::consume: Some(rest) when the token matches a prefix of d
consume(d, token) ==
    IF token.kind = "Literal"
      THEN IF starts_with(d, token.s) THEN Some(From(d, Len(token.s))) ELSE None
      ELSE IF Len(d) >= Len(token.s)
                /\ eq_ignore_ascii_case(UpTo(d, Len(token.s)), token.s)
             THEN Some(From(d, Len(token.s)))
             ELSE None

\* PullParser::consume_seq: all the tokens or nothing
RECURSIVE consume_seq(_, _)
consume_seq(d, tokens) ==
    IF tokens = <<>> THEN Some(d)
    ELSE LET c == consume(d, Head(tokens))
         IN  IF c.some THEN consume_seq(c.val, Tail(tokens)) ELSE None

maybe_consume(d, token) ==
    LET c == consume(d, token) IN IF c.some THEN c.val ELSE d

is_userinfo_char(c) ==
    \/ is_ascii_alphanumeric(c)
    \/ c \in {"-",".","_","~","!","$","&","'","(",")","*","+",",",";","=","%",":"}

maybe_consume_userinfo(d) ==
    LET ats == {i \in 1..Len(d) : d[i] = "@"}
    IN  IF ats = {} THEN d
        ELSE LET i == MinOf(ats)
             IN  IF \A j \in 1..(i - 1) : is_userinfo_char(d[j])
                   THEN From(d, i)
                   ELSE d

MaxHostnameLen == 253
MaxLabelLen == 63

\* str::split: the pieces of s between occurrences of the character c
RECURSIVE split(_, _)
split(s, c) ==
    LET at == {i \in 1..Len(s) : s[i] = c}
    IN  IF at = {} THEN <<s>>
        ELSE <<UpTo(s, MinOf(at) - 1)>> \o split(From(s, MinOf(at)), c)

\* mutant: the hyphen check on a label's ends left out
label_ok_any_hyphen(label) ==
    /\ ~(label = <<>> \/ Len(label) > MaxLabelLen)
    /\ \A i \in 1..Len(label) : is_ascii_alphanumeric(label[i]) \/ label[i] = "-"

label_ok(label) ==
    /\ ~(label = <<>> \/ Len(label) > MaxLabelLen)
    /\ ~(Head(label) = "-" \/ label[Len(label)] = "-")
    /\ \A i \in 1..Len(label) : is_ascii_alphanumeric(label[i]) \/ label[i] = "-"

is_valid_hostname(hostname) ==
    IF hostname = <<>> \/ Len(hostname) > MaxHostnameLen
      THEN FALSE
      ELSE LET labels == split(hostname, ".")
           IN  \A k \in 1..Len(labels) : label_ok(labels[k])

\* PullParser::consume_host: Some(<<host, rest>>)
consume_host(d) ==
    LET sp == span(d, "is_hostname_char")
    IN  IF is_valid_hostname(sp[1]) THEN Some(sp) ELSE None

get_org_name(d) == split_org_name(d)

\* mutant: the end of input not checked
at_end_unchecked(d) == TRUE

at_end(d) == d = <<>>

\* the parser as a record, and one loop iteration per state
NewParser(s) ==
    [data |-> s, state |-> "Start", host |-> None, result |-> None,
     done |-> FALSE, ret |-> None]

Return(p, v) == [p EXCEPT !.done = TRUE, !.ret = v]

RECURSIVE FindStart(_, _)
FindStart(d, k) ==
    IF k > Len(START_PATTERNS) THEN [data |-> d, state |-> "Web"]
    ELSE LET c == consume_seq(d, START_PATTERNS[k].tokens)
         IN  IF c.some
               THEN [data |-> c.val, state |-> START_PATTERNS[k].transition]
               ELSE FindStart(d, k + 1)

StartArm(p) ==
    LET f == FindStart(p.data, 1)
    IN  [p EXCEPT !.data = f.data, !.state = f.state]

HttpArm(p) ==
    LET d1 == maybe_consume_userinfo(p.data)
        h == consume_host(d1)
    IN  IF ~h.some THEN Return([p EXCEPT !.data = d1], None)
        ELSE LET c1 == consume(h.val[2], Literal(REPOS))
                 c2 == IF c1.some THEN c1 ELSE consume(h.val[2], Literal(SLASH))
                 p1 == [p EXCEPT !.host = Some(h.val[1])]
             IN  IF c2.some
                   THEN [p1 EXCEPT !.data = c2.val, !.state = "OrgName"]
                   ELSE Return([p1 EXCEPT !.data = h.val[2]], None)

WebArm(p) ==
    LET d1 == maybe_consume(p.data, CaseFold(WWW))
        h == consume_host(d1)
    IN  IF ~h.some THEN Return([p EXCEPT !.data = d1], None)
        ELSE LET p1 == [p EXCEPT !.host = Some(h.val[1]), !.data = h.val[2]]
                 c == consume(h.val[2], Literal(SLASH))
             IN  IF ~c.some THEN Return(p1, None)
                 ELSE LET on == get_org_name(c.val)
                      IN  IF ~on.some THEN Return([p1 EXCEPT !.data = c.val], None)
                          ELSE [p1 EXCEPT
                                  !.result = Some([org |-> on.val.org, name |-> on.val.name]),
                                  !.data = maybe_consume(
                                             maybe_consume(on.val.rest, Literal(DOTGIT)),
                                             Literal(SLASH)),
                                  !.state = "End"]

OrgNameArm(p) ==
    LET on == get_org_name(p.data)
    IN  IF ~on.some THEN Return(p, None)
        ELSE [p EXCEPT
                !.result = Some([org |-> on.val.org, name |-> on.val.name]),
                !.data = maybe_consume(maybe_consume(on.val.rest, Literal(DOTGIT)),
                                       Literal(SLASH)),
                !.state = "End"]

OrgNameGitArm(p) ==
    LET h == consume_host(p.data)
    IN  IF ~h.some THEN Return(p, None)
        ELSE LET p1 == [p EXCEPT !.host = Some(h.val[1]), !.data = h.val[2]]
                 c1 == consume(h.val[2], Literal(<<":">>))
                 c2 == IF c1.some THEN c1 ELSE consume(h.val[2], Literal(SLASH))
             IN  IF ~c2.some THEN Return(p1, None)
                 ELSE LET on == get_org_name(c2.val)
                      IN  IF ~on.some THEN Return([p1 EXCEPT !.data = c2.val], None)
                          ELSE [p1 EXCEPT
                                  !.result = Some([org |-> on.val.org, name |-> on.val.name]),
                                  !.data = maybe_consume(on.val.rest, Literal(DOTGIT)),
                                  !.state = "End"]

EndArm(p) ==
    IF at_end(p.data)
      THEN IF p.host.some /\ p.result.some
             THEN Return(p, Some([host |-> p.host.val, org |-> p.result.val.org,
                                  name |-> p.result.val.name]))
             ELSE Return(p, None)
      ELSE Return(p, None)

Arm(p) ==
    CASE p.state = "Start" -> StartArm(p)
      [] p.state = "Http" -> HttpArm(p)
      [] p.state = "Web" -> WebArm(p)
      [] p.state = "OrgName" -> OrgNameArm(p)
      [] p.state = "OrgNameGit" -> OrgNameGitArm(p)
      [] p.state = "End" -> EndArm(p)

RECURSIVE RunParser(_)
RunParser(p) == IF p.done THEN p.ret ELSE RunParser(Arm(p))

parse_git_url(s) == RunParser(NewParser(s))

---------------------------------------------------------------------------
(* src/src/repo.rs                                                         *)

\* Result<String, RepositoryError> and the resolver's return value
Res(kind, text, code) == [kind |-> kind, text |-> text, code |-> code]
Ok(text) == Res("Ok", text, 0)
NoOut == Res("none", <<>>, 0)

ORIGIN == <<"o","r","i","g","i","n">>
MAIN == <<"m","a","i","n">>
MASTER == <<"m","a","s","t","e","r">>
DEVELOP == <<"d","e","v","e","l","o","p">>

\* the web URL of (host, org, name), as http_url formats it
web_url(r) == HTTPS \o r.host \o SLASH \o r.org \o SLASH \o r.name

\* http_url once the current branch is known
http_url(r, branch) ==
    IF branch \in {DEVELOP, MAIN, MASTER}
      THEN web_url(r)
      ELSE web_url(r) \o <<"/","t","r","e","e","/">> \o branch

commit_url(r, hash) == web_url(r) \o <<"/","c","o","m","m","i","t","/">> \o hash

pr_url(r, pr_number) == web_url(r) \o <<"/","p","u","l","l","/">> \o pr_number

is_whitespace(c) == c \in {" ", "\n", "\t", "\r"}

\* str::trim
trim(s) ==
    LET keep == {i \in 1..Len(s) : ~is_whitespace(s[i])}
    IN  IF keep = {} THEN <<>>
        ELSE SubSeq(s, MinOf(keep), CHOOSE i \in keep : \A j \in keep : j <= i)

\* git(): what the command executor did becomes a Result
git(raw) ==
    IF ~raw.spawned THEN Res("CouldNotExecute", <<>>, 0)
    ELSE IF raw.code = 0
      THEN IF raw.utf8 THEN Ok(trim(raw.stdout)) ELSE Res("InvalidUtf8", <<>>, 0)
      ELSE Res("CommandFailed", <<>>, raw.code)

\* mutant: every launched probe counts as a repository
is_git_repo_if_spawned(raw) == raw.spawned

\* mutant: the probe's result not looked at
is_git_repo_unconditional(raw) == TRUE

is_git_repo(raw) == git(raw).kind = "Ok"

MinHashLen == 7
MaxHashLen == 40

\* mutant: the lower length bound off by one
is_valid_commit_hash_off_by_one(hash) ==
    /\ Len(hash) > MinHashLen
    /\ Len(hash) <= MaxHashLen
    /\ \A i \in 1..Len(hash) : is_ascii_hexdigit(hash[i])

is_valid_commit_hash(hash) ==
    /\ Len(hash) >= MinHashLen
    /\ Len(hash) <= MaxHashLen
    /\ \A i \in 1..Len(hash) : is_ascii_hexdigit(hash[i])

is_pr_number(s) == s # <<>> /\ \A i \in 1..Len(s) : is_ascii_digit(s[i])

\* the scan pr_for_commit makes of a commit message
pr_in_message(message) ==
    LET hashes == {i \in 1..Len(message) : message[i] = "#"}
    IN  IF hashes = {} THEN None
        ELSE LET after_hash == From(message, MinOf(hashes))
                 pr_number == span(after_hash, "is_ascii_digit")[1]
             IN  IF pr_number # <<>> THEN Some(pr_number) ELSE None

\* pr_for_commit, given the Result of the log command
pr_for_commit(r, res) ==
    IF r.path.some /\ res.kind = "Ok" THEN pr_in_message(res.text) ELSE None

\* mutant: no fallback to main when the query fails
current_branch_no_fallback(r, res) == res.text

\* mutant: the fallback branch is HEAD
current_branch_fallback_head(r, res) ==
    IF r.path.some /\ res.kind = "Ok" THEN res.text ELSE <<"H","E","A","D">>

\* current_branch, given the Result of the symbolic-ref command
current_branch(r, res) ==
    IF r.path.some /\ res.kind = "Ok" THEN res.text ELSE MAIN

\* mutant: exit status 2 not told apart from other failures
remote_exit_status_unmapped(res, name) == res

\* GitRepository::remote, given the Result of the remote command
remote(res, name) ==
    IF res.kind = "CommandFailed" /\ res.code = 2
      THEN Res("NoSuchRemote", name, 0)
      ELSE res

\* [String]::join
RECURSIVE join(_, _)
join(ps, sep) ==
    IF ps = <<>> THEN <<>>
    ELSE IF Len(ps) = 1 THEN ps[1]
    ELSE ps[1] \o sep \o join(Tail(ps), sep)

CurrentDir == <<"/","w">>

join_paths(current_dir, ps) ==
    LET path == join(ps, <<" ">>)
    IN  IF path = <<".">> THEN current_dir ELSE path

\* the GitRepository that from_path and from_url build from a parse
repo_of(parsed, path) ==
    IF ~parsed.some THEN None
    ELSE Some([host |-> parsed.val.host, org |-> parsed.val.org,
               name |-> parsed.val.name, path |-> path])

---------------------------------------------------------------------------
(* The parser run: parse_git_url on one input, one loop iteration a step   *)

\* how far around the hostname and label length limits the inputs reach
Slack == 1

Label(k) == Rep("a", k)
\* a hostname of k characters: three labels of MaxLabelLen and a last label
HostOfLen(k) ==
    Label(MaxLabelLen) \o <<".">> \o Label(MaxLabelLen) \o <<".">>
      \o Label(MaxLabelLen) \o <<".">> \o Label(k - 3 * (MaxLabelLen + 1))

Prefixes ==
    { <<>>, HTTPS, HTTP, GITSCHEME, GITAT, SSHSCHEME \o GITAT,
      <<"H","T","T","P","S",":","/","/">>,
      <<"h","T","t","P",":","/","/">>,
      <<"G","i","t",":","/","/">>,
      <<"S","s","H",":","/","/">> \o GITAT,
      <<"G","I","T","@">>,
      SSHSCHEME \o <<"G","i","t","@">>,
      HTTPS \o <<"u",":","p","@">>,
      HTTPS \o <<"u","/","p","@">>,
      WWW,
      HTTPS \o <<"W","w","W",".">>,
      <<"W","w","W",".">>,
      HTTPS \o <<"u",":","p","@">> \o WWW }

GoodHosts == { <<"h">>, <<"H","-","1",".","i","o">> }

OddHosts ==
    { <<>>, <<"-","h">>, <<"h","-">>, <<"h",".",".","i","o">>, <<"h",".">>,
      <<"h","_","x">> }
    \cup { Label(k) : k \in (MaxLabelLen - Slack)..(MaxLabelLen + Slack) }
    \cup { HostOfLen(k) : k \in (MaxHostnameLen - Slack)..(MaxHostnameLen + Slack) }

Seps == { SLASH, <<":">>, REPOS, <<"/","R","e","p","o","s","/">> }

Orgs ==
    { <<"o">>, <<"O","_","-","1">>, <<"r","e","p","o","s">>,
      <<"n","o","n","e">>, <<"N","o","n","E">>, <<>> }

Names ==
    { <<"n">>, <<"a",".","B","_","-","1">>, <<"n",".","G","I","T">>,
      <<"n",".","g","i","T">>, <<"n",".","g","i","t">>, <<".">>, <<".",".">>,
      <<>> }

Tails ==
    { <<>>, DOTGIT, SLASH, DOTGIT \o SLASH, <<"/","x">>, <<".","G","I","T">> }

Parts(pre, h, sep, o, mid, n, tail) ==
    [pre |-> pre, host |-> h, sep |-> sep, org |-> o, mid |-> mid,
     name |-> n, tail |-> tail]

Bare(s) == Parts(s, <<>>, <<>>, <<>>, <<>>, <<>>, <<>>)

Inputs ==
    { Parts(pre, h, sep, o, SLASH, n, tail) :
        pre \in Prefixes, h \in GoodHosts, sep \in Seps, o \in Orgs,
        n \in Names, tail \in Tails }
    \cup { Parts(pre, h, sep, <<"o">>, SLASH, <<"n">>, <<>>) :
             pre \in Prefixes, h \in OddHosts, sep \in {SLASH, <<":">>} }
    \cup { Bare(<<>>), Bare(HTTPS), Bare(HTTPS \o <<"h">>),
           Bare(<<"n","o","t","-","a","-","u","r","l">>),
           Bare(GITAT \o <<"h">>), Bare(<<"h","/","o">>),
           Bare(GITSCHEME), Bare(<<"h","/">>) }

Text(i) == i.pre \o i.host \o i.sep \o i.org \o i.mid \o i.name \o i.tail

Cur == [data |-> data, state |-> state, host |-> host, result |-> result,
        done |-> done, ret |-> ret]

SetParser(p) ==
    /\ data' = p.data
    /\ state' = p.state
    /\ host' = p.host
    /\ result' = p.result
    /\ done' = p.done
    /\ ret' = p.ret

ResolverIdle ==
    /\ pc = "idle"
    /\ paths = <<>>
    /\ isGit = FALSE
    /\ repo = None
    /\ calls = <<>>
    /\ out = [kind |-> "none", text |-> <<>>, code |-> 0]

ParserInit ==
    /\ inp \in Inputs
    /\ data = Text(inp)
    /\ state = "Start"
    /\ host = None
    /\ result = None
    /\ done = FALSE
    /\ ret = None
    /\ ResolverIdle

ParseStart ==
    /\ ~done /\ state = "Start"
    /\ SetParser(StartArm(Cur))
    /\ UNCHANGED <<inp, resolverVars>>

ParseHttp ==
    /\ ~done /\ state = "Http"
    /\ SetParser(HttpArm(Cur))
    /\ UNCHANGED <<inp, resolverVars>>

ParseWeb ==
    /\ ~done /\ state = "Web"
    /\ SetParser(WebArm(Cur))
    /\ UNCHANGED <<inp, resolverVars>>

ParseOrgName ==
    /\ ~done /\ state = "OrgName"
    /\ SetParser(OrgNameArm(Cur))
    /\ UNCHANGED <<inp, resolverVars>>

ParseOrgNameGit ==
    /\ ~done /\ state = "OrgNameGit"
    /\ SetParser(OrgNameGitArm(Cur))
    /\ UNCHANGED <<inp, resolverVars>>

ParseEnd ==
    /\ ~done /\ state = "End"
    /\ SetParser(EndArm(Cur))
    /\ UNCHANGED <<inp, resolverVars>>

ParserNext ==
    \/ ParseStart
    \/ ParseHttp
    \/ ParseWeb
    \/ ParseOrgName
    \/ ParseOrgNameGit
    \/ ParseEnd

ParserSpec == ParserInit /\ [][ParserNext]_vars

\* the run's return value agrees with the function applied to the input
RunIsFunction == done => ret = parse_git_url(Text(inp))

---------------------------------------------------------------------------
(* The resolver run: GitRepository::url (and from_url followed by          *)
(* http_url), one step per git command                                     *)

\* the longest argument list
MaxArgs == 2

\* what the command executor can do with a command whose output, when it
\* succeeds, is one of texts
Raw(spawned, code, utf8, stdout) ==
    [spawned |-> spawned, code |-> code, utf8 |-> utf8, stdout |-> stdout]

RawOutcomes(texts) ==
    { Raw(FALSE, 0, TRUE, <<>>), Raw(TRUE, 0, FALSE, <<>>) }
    \cup { Raw(TRUE, c, TRUE, <<>>) : c \in {1, 2, 128} }
    \cup { Raw(TRUE, 0, TRUE, t) : t \in texts }

NL == <<"\n">>

ProbeTexts == { <<".","g","i","t">> \o NL }

RemoteUrls ==
    { HTTPS \o <<"h","/","o","/","n">>,
      GITAT \o <<"H","-","1",".","i","o",":","O","_","-","1","/","a",".","B">> \o DOTGIT,
      SSHSCHEME \o GITAT \o <<"h","/","o","/","n",".","G","I","T">>,
      HTTPS \o <<"h","/","r","e","p","o","s","/","n">>,
      <<"n","o","t","-","a","-","u","r","l">>,
      <<>> }

RemoteTexts == { u \o NL : u \in RemoteUrls }

BranchTexts ==
    { MAIN \o NL, MASTER \o NL, DEVELOP \o NL,
      <<"f","e","a","t","u","r","e","-","x">> \o NL,
      <<"M","a","i","n">> \o NL,
      <<"m","a","i","n","s">>,
      <<>> }

MessageTexts ==
    { <<"F","i","x","e","s"," ","#","4","2">> \o NL \o NL,
      <<"n","o"," ","p","r">> \o NL,
      <<"#"," ","t","i","t","l","e">> \o NL \o <<"f","i","x"," ","#","4","2">> \o NL,
      <<"#","7">>,
      <<"a","#","b"," ","#","1","2">>,
      <<"(","#","1","2","3",")"," ","#","4">> \o NL,
      <<"#">>,
      <<>> }

ArgPool ==
    { <<".">>, <<"f","o","o">>, <<"4","2">>, <<>>, <<"a","1","B","2","c","3","d">>,
      <<"1","2","3","4","5","g","7">> }
    \cup { Rep("9", k) : k \in {MinHashLen - 1, MinHashLen, MaxHashLen, MaxHashLen + 1} }
    \cup { Rep("c", k) : k \in {MinHashLen - 1, MinHashLen, MaxHashLen, MaxHashLen + 1} }

ArgLists == UNION { [1..k -> ArgPool] : k \in 0..MaxArgs }

Call(cmd, arg, res) == [cmd |-> cmd, arg |-> arg, res |-> res]

ParserIdle ==
    /\ inp = Bare(<<>>)
    /\ data = <<>>
    /\ state = "Start"
    /\ host = None
    /\ result = None
    /\ done = TRUE
    /\ ret = None

Init ==
    /\ pc \in {"url", "from_url"}
    /\ paths \in IF pc = "url" THEN ArgLists ELSE {<<>>}
    /\ isGit = FALSE
    /\ repo = None
    /\ calls = <<>>
    /\ out = NoOut
    /\ ParserIdle

\* url: the repository probe, and the return when the probe fails
IsGitRepo ==
    /\ pc = "url"
    /\ \E raw \in RawOutcomes(ProbeTexts) :
         /\ calls' = Append(calls, Call("rev-parse", <<>>, git(raw)))
         /\ isGit' = is_git_repo(raw)
         /\ IF ~is_git_repo(raw)
              THEN /\ out' = Ok(join_paths(CurrentDir, paths))
                   /\ pc' = "done"
              ELSE /\ out' = out
                   /\ pc' = "from_path"
    /\ UNCHANGED <<paths, repo, parserVars>>

\* the value url returns without a further git command, once r is built
Direct(r) ==
    IF Len(paths) = 1 /\ ~is_valid_commit_hash(paths[1]) /\ is_pr_number(paths[1])
      THEN Ok(pr_url(r, paths[1]))
      ELSE Ok(join_paths(CurrentDir, paths))

\* the call of parse_git_url(s): the parser starts on s
StartParse(s) ==
    /\ inp' = Bare(s)
    /\ SetParser(NewParser(s))

\* url: from_path's remote lookup; a url is handed to parse_git_url
FromPath ==
    /\ pc = "from_path"
    /\ \E raw \in RawOutcomes(RemoteTexts) :
         LET res == remote(git(raw), ORIGIN)
         IN  /\ calls' = Append(calls, Call("remote", ORIGIN, git(raw)))
             /\ IF res.kind # "Ok"
                  THEN /\ out' = res
                       /\ pc' = "done"
                       /\ UNCHANGED parserVars
                  ELSE /\ out' = out
                       /\ pc' = "parse_remote"
                       /\ StartParse(res.text)
    /\ UNCHANGED <<paths, isGit, repo>>

\* url: the rest of from_path once parse_git_url has returned, and the
\* dispatch on the arguments
FromPathParsed ==
    /\ pc = "parse_remote"
    /\ done
    /\ LET r == repo_of(ret, Some(CurrentDir))
       IN  IF ~r.some
             THEN /\ out' = Res("Spec", Text(inp), 0)
                  /\ pc' = "done"
                  /\ repo' = repo
             ELSE /\ repo' = r
                  /\ IF paths = <<>>
                       THEN pc' = "http_url" /\ out' = out
                       ELSE IF Len(paths) = 1 /\ is_valid_commit_hash(paths[1])
                       THEN pc' = "pr_for_commit" /\ out' = out
                       ELSE pc' = "done" /\ out' = Direct(r.val)
    /\ UNCHANGED <<paths, isGit, calls, parserVars>>

\* http_url: the branch lookup when the repository has a path
HttpUrl ==
    /\ pc = "http_url"
    /\ \/ /\ repo.val.path.some
          /\ \E raw \in RawOutcomes(BranchTexts) :
               /\ calls' = Append(calls, Call("symbolic-ref", <<>>, git(raw)))
               /\ out' = Ok(http_url(repo.val, current_branch(repo.val, git(raw))))
       \/ /\ ~repo.val.path.some
          /\ calls' = calls
          /\ out' = Ok(http_url(repo.val, current_branch(repo.val, NoOut)))
    /\ pc' = "done"
    /\ UNCHANGED <<paths, isGit, repo, parserVars>>

\* url: the commit-hash argument
PrForCommit ==
    /\ pc = "pr_for_commit"
    /\ \E raw \in RawOutcomes(MessageTexts) :
         LET pr == pr_for_commit(repo.val, git(raw))
         IN  /\ calls' = Append(calls, Call("log", paths[1], git(raw)))
             /\ out' = IF pr.some
                         THEN Ok(pr_url(repo.val, pr.val))
                         ELSE Ok(commit_url(repo.val, paths[1]))
    /\ pc' = "done"
    /\ UNCHANGED <<paths, isGit, repo, parserVars>>

\* from_url, as the tests use it before http_url: the url is handed to
\* parse_git_url
FromUrl ==
    /\ pc = "from_url"
    /\ \E url \in RemoteUrls : StartParse(url)
    /\ pc' = "parse_url"
    /\ UNCHANGED <<paths, isGit, repo, calls, out>>

FromUrlParsed ==
    /\ pc = "parse_url"
    /\ done
    /\ LET r == repo_of(ret, None)
       IN  IF ~r.some
             THEN /\ out' = Res("Spec", Text(inp), 0)
                  /\ pc' = "done"
                  /\ repo' = repo
             ELSE /\ repo' = r
                  /\ pc' = "http_url"
                  /\ out' = out
    /\ UNCHANGED <<paths, isGit, calls, parserVars>>

Next ==
    \/ IsGitRepo
    \/ FromPath
    \/ FromPathParsed
    \/ HttpUrl
    \/ PrForCommit
    \/ FromUrl
    \/ FromUrlParsed
    \/ ParserNext

Spec == Init /\ [][Next]_vars

---------------------------------------------------------------------------
(* Claims about parse_git_url, checked under ParserSpec                    *)

Triple(h, o, n) == [host |-> h, org |-> o, name |-> n]

\* the name segment of an input: the maximal run of name characters after
\* "org/", and what follows it
NameRun(i) == span(i.name \o i.tail, "is_name_char")[1]
AfterNameRun(i) == span(i.name \o i.tail, "is_name_char")[2]
BeforeName(i) == i.pre \o i.host \o i.sep \o i.org \o i.mid

Last4(s) == From(s, Len(s) - 4)
DropLast4(s) == UpTo(s, Len(s) - 4)

EndsInExactDotGit(s) == Len(s) >= 4 /\ Last4(s) = DOTGIT
EndsInVariantDotGit(s) ==
    /\ Len(s) >= 4
    /\ eq_ignore_ascii_case(Last4(s), DOTGIT)
    /\ Last4(s) # DOTGIT

\* the input ends with its name segment, and is recognized once the
\* segment's last four characters are taken away
RecognizedStem(i) ==
    /\ i.mid = SLASH
    /\ AfterNameRun(i) = <<>>
    /\ Len(NameRun(i)) > 4
    /\ parse_git_url(BeforeName(i) \o DropLast4(NameRun(i))).some

\* C1 as stated: a name segment ending in `.git` only up to ASCII case keeps
\* that suffix, which is returned as part of the name
C1_VariantSuffixRetained ==
    (done /\ RecognizedStem(inp) /\ EndsInVariantDotGit(NameRun(inp)))
      => (ret.some /\ ret.val.name = NameRun(inp))

\* C1 (amended): a byte-exact trailing `.git` is stripped from the name
\* segment and the rest is returned as the name; an input whose name segment
\* ends in a suffix equal to `.git` only up to ASCII case is rejected (None):
\* the suffix is split off the name and then left unconsumed
C1_VariantSuffixRejected ==
    /\ (done /\ inp.mid = SLASH /\ EndsInVariantDotGit(NameRun(inp)))
         => ret = None
    /\ (done /\ RecognizedStem(inp) /\ EndsInExactDotGit(NameRun(inp)))
         => (ret.some /\ ret.val.name = DropLast4(NameRun(inp)))

C1_Witness ==
    /\ done
    /\ RecognizedStem(inp)
    /\ EndsInVariantDotGit(NameRun(inp))
    /\ state = "End"
    /\ result.some
    /\ result.val.name = DropLast4(NameRun(inp))
    /\ data = Last4(NameRun(inp))
    /\ ret = None

\* C2 as stated: the web URL of a parsed triple parses to the same triple
C2_RoundTrip ==
    (done /\ ret.some) => parse_git_url(web_url(ret.val)) = ret

\* the claim's notions of a valid host, org and name
ValidOrg(o) ==
    /\ o # <<>>
    /\ \A k \in 1..Len(o) : is_org_char(o[k])
    /\ ~eq_ignore_ascii_case(o, <<"n","o","n","e">>)

ValidName(n) ==
    /\ n # <<>>
    /\ \A k \in 1..Len(n) : is_name_char(n[k])
    /\ n # <<".">>
    /\ n # <<".",".">>

DialectForms ==
    { <<HTTPS, SLASH>>, <<HTTP, SLASH>>, <<HTTPS \o <<"u",":","p","@">>, SLASH>>,
      <<GITSCHEME, SLASH>>, <<GITAT, <<":">> >>, <<SSHSCHEME \o GITAT, SLASH>> }

IsDialectInput(i) ==
    /\ <<i.pre, i.sep>> \in DialectForms
    /\ is_valid_hostname(i.host)
    /\ ValidOrg(i.org)
    /\ i.mid = SLASH
    /\ ValidName(i.name)
    /\ ~ends_with(i.name, DOTGIT)
    /\ ~EndsInVariantDotGit(i.name)
    /\ i.tail \in {<<>>, DOTGIT}

\* C3 as stated: every dialect form of valid (h, o, n), with or without a
\* trailing `.git`, parses to (h, o, n); read here for the names that do not
\* end in `.git` in any ASCII case (the names that do are C1's subject)
C3_AllDialects ==
    (done /\ IsDialectInput(inp)) => ret = Some(Triple(inp.host, inp.org, inp.name))

\* the RemoteDescriptor invariants, stated on the strings themselves
HostInv(h) ==
    /\ h # <<>>
    /\ Len(h) <= 253
    /\ \A k \in 1..Len(h) : is_ascii_alphanumeric(h[k]) \/ h[k] \in {"-", "."}
    /\ h[1] \notin {"-", "."}
    /\ h[Len(h)] \notin {"-", "."}
    /\ \A k \in 1..(Len(h) - 1) :
         /\ ~(h[k] = "." /\ h[k + 1] \in {".", "-"})
         /\ ~(h[k] = "-" /\ h[k + 1] = ".")
    /\ \A k \in 1..(Len(h) - 63) : \E j \in k..(k + 63) : h[j] = "."

OrgInv(o) ==
    /\ o # <<>>
    /\ \A k \in 1..Len(o) : is_ascii_alphanumeric(o[k]) \/ o[k] \in {"-", "_"}
    /\ <<to_ascii_lowercase(o[1])>> \o [k \in 1..(Len(o) - 1) |-> to_ascii_lowercase(o[k + 1])]
         # <<"n","o","n","e">>

NameInv(n) ==
    /\ n # <<>>
    /\ \A k \in 1..Len(n) : is_ascii_alphanumeric(n[k]) \/ n[k] \in {"-", "_", "."}
    /\ n # <<".">>
    /\ n # <<".",".">>

\* C4: every successful parse returns a host, an org and a name that satisfy
\* the RemoteDescriptor invariants
C4_DescriptorInvariants ==
    (done /\ ret.some) =>
      /\ HostInv(ret.val.host)
      /\ OrgInv(ret.val.org)
      /\ NameInv(ret.val.name)

C4_Witness ==
    /\ done
    /\ ret.some
    /\ ret.val.host = <<"H","-","1",".","i","o">>
    /\ ret.val.org = <<"O","_","-","1">>
    /\ ret.val.name = <<"a",".","B","_","-","1">>

NoPairInputs ==
    { Bare(<<>>), Bare(HTTPS), Bare(HTTPS \o <<"h">>),
      Bare(<<"n","o","t","-","a","-","u","r","l">>),
      Bare(GITAT \o <<"h">>), Bare(GITSCHEME), Bare(<<"h","/">>) }

\* C5: Some is returned only from End with the input consumed and host and
\* org/name captured; unconsumed characters at End, and inputs with no
\* org/name pair after the host, give None
C5_SomeOnlyAtEnd ==
    /\ (done /\ ret.some) =>
         /\ state = "End"
         /\ data = <<>>
         /\ host.some
         /\ result.some
         /\ ret.val = Triple(host.val, result.val.org, result.val.name)
    /\ (done /\ state = "End" /\ data # <<>>) => ret = None
    /\ (done /\ ~result.some) => ret = None
    /\ (done /\ inp \in NoPairInputs) => ret = None

C5_Witness ==
    /\ done
    /\ state = "End"
    /\ host.some
    /\ result.some
    /\ data = <<"x">>
    /\ ret = None

Schemes == {HTTPS, HTTP, GITSCHEME, SSHSCHEME}

\* the input with the n characters from offset k replaced by lit
Replaced(s, k, lit) == UpTo(s, k) \o lit \o From(s, k + Len(lit))

\* s has, at offset k, a string equal to lit up to ASCII case but not exactly
VariantAt(s, k, lit) ==
    /\ Len(s) >= k + Len(lit)
    /\ eq_ignore_ascii_case(SubSeq(s, k + 1, k + Len(lit)), lit)
    /\ SubSeq(s, k + 1, k + Len(lit)) # lit

\* the offsets at which a `git@` username may stand: the start of the input,
\* or right after an `ssh://` scheme in any case
GitAtOffsets(s) ==
    {0} \cup { k \in {Len(SSHSCHEME)} :
                 Len(s) >= k /\ eq_ignore_ascii_case(UpTo(s, k), SSHSCHEME) }

\* C6: a scheme in any ASCII case parses as its lowercase form does; an input
\* that differs from a recognized one only in the case of `git@` or of
\* `/repos/` is not parsed as the git@ dialect and does not give its triple
C6_CaseSensitivity ==
    done =>
      LET s == Text(inp)
      IN  /\ \A sch \in Schemes :
               (Len(s) >= Len(sch) /\ eq_ignore_ascii_case(UpTo(s, Len(sch)), sch))
                 => ret = parse_git_url(Replaced(s, 0, sch))
          /\ \A k \in GitAtOffsets(s) :
               VariantAt(s, k, GITAT) =>
                 /\ state # "OrgNameGit"
                 /\ LET t == parse_git_url(Replaced(s, k, GITAT))
                    IN  t.some => ret # t
          /\ \A k \in 0..Len(s) :
               VariantAt(s, k, REPOS) =>
                 LET t == parse_git_url(Replaced(s, k, REPOS))
                 IN  t.some => ret # t

C6_Witness ==
    /\ done
    /\ inp.pre = <<"G","I","T","@">>
    /\ parse_git_url(GITAT \o From(Text(inp), 4)).some
    /\ ret = None

\* the prefixes that end in `www.`: bare, and after `https://` with or
\* without userinfo
BareWwwPrefixes == { <<"w","w","w",".">>, <<"W","w","W",".">> }
HttpWwwPrefixes ==
    { <<"h","t","t","p","s",":","/","/","W","w","W",".">>,
      <<"h","t","t","p","s",":","/","/","u",":","p","@","w","w","w",".">> }

\* host/org/name with valid components, a host short enough for `www.` and
\* the host to stay within the hostname length limit, no `.git` ending and
\* no `repos` org
IsPlainTriple(i) ==
    /\ is_valid_hostname(i.host)
    /\ Len(i.host) <= 6
    /\ i.sep = SLASH
    /\ ValidOrg(i.org)
    /\ i.org # <<"r","e","p","o","s">>
    /\ i.mid = SLASH
    /\ ValidName(i.name)
    /\ ~(Len(i.name) >= 4 /\ eq_ignore_ascii_case(Last4(i.name), DOTGIT))
    /\ i.tail = <<>>

\* C12 as stated: a leading `www.` in any ASCII case is not part of the
\* returned host, in the bare form and in the `http[s]://` form with optional
\* userinfo: `www.H/o/n` and `https://www.H/o/n` parse to (H, o, n); read
\* here for short hosts, the orgs other than `repos` and the names that do
\* not end in `.git` in any ASCII case
C12_WwwNotInHost ==
    (done /\ inp.pre \in BareWwwPrefixes \cup HttpWwwPrefixes /\ IsPlainTriple(inp))
      => ret = Some(Triple(inp.host, inp.org, inp.name))

---------------------------------------------------------------------------
(* Claims about GitRepository::url, checked under Spec                     *)

\* a resolution through url has returned (from_url issues no probe)
UrlReturned == pc = "done" /\ calls # <<>> /\ calls[1].cmd = "rev-parse"

LastCall == calls[Len(calls)]

Joined == join(paths, <<" ">>)

\* https://h/o/n for the triple the remote url parsed to
ParsedWeb ==
    <<"h","t","t","p","s",":","/","/">> \o ret.val.host \o <<"/">>
      \o ret.val.org \o <<"/">> \o ret.val.name

\* C7 as stated: outside a Git repository the result is the space-joined
\* arguments, or the working directory when the join is `.` or empty, and
\* only the probe was issued
C7_NotGitJoinOrCwd ==
    (UrlReturned /\ ~isGit) =>
      /\ out = Ok(IF Joined = <<".">> \/ Joined = <<>> THEN CurrentDir ELSE Joined)
      /\ Len(calls) = 1

\* the branch a finished no-argument resolution is to use
BranchUsed ==
    IF repo.val.path.some /\ LastCall.cmd = "symbolic-ref" /\ LastCall.res.kind = "Ok"
      THEN LastCall.res.text
      ELSE <<"m","a","i","n">>

\* C8: with no arguments and an origin that parses to (h, o, n), the result
\* is https://h/o/n on develop, main and master and https://h/o/n/tree/branch
\* on any other branch; the branch is main when the symbolic-ref query fails
\* or the repository has no local path
C8_BranchAwareUrl ==
    (pc = "done" /\ repo.some /\ paths = <<>>) =>
      /\ repo.val.path.some => (Len(calls) = 3 /\ LastCall.cmd = "symbolic-ref")
      /\ ~repo.val.path.some => calls = <<>>
      /\ out = Ok(IF BranchUsed \in { <<"d","e","v","e","l","o","p">>,
                                       <<"m","a","i","n">>,
                                       <<"m","a","s","t","e","r">> }
                    THEN ParsedWeb
                    ELSE ParsedWeb \o <<"/","t","r","e","e","/">> \o BranchUsed)

C8_Witness ==
    /\ pc = "done"
    /\ repo.some
    /\ repo.val.path.some
    /\ paths = <<>>
    /\ LastCall.cmd = "symbolic-ref"
    /\ LastCall.res = Ok(<<"f","e","a","t","u","r","e","-","x">>)
    /\ out = Ok(HTTPS \o <<"h","/","o","/","n","/","t","r","e","e","/",
                           "f","e","a","t","u","r","e","-","x">>)

HexChars ==
    {"0","1","2","3","4","5","6","7","8","9",
     "a","b","c","d","e","f","A","B","C","D","E","F"}

IsHashCandidate(a) ==
    /\ Len(a) \in 7..40
    /\ \A i \in 1..Len(a) : a[i] \in HexChars

AllDigits(a) == \A i \in 1..Len(a) : a[i] \in DigitSet

PullPrefix == ParsedWeb \o <<"/","p","u","l","l","/">>

\* C9: a single argument of 7 to 40 hex digits is a commit hash (the log
\* command is issued for it and the result is its commit URL or a PR URL),
\* all-digit ones included; any other non-empty all-digit single argument
\* gives the PR URL for it; every other argument list gives the space-joined
\* arguments, or the working directory when the join is `.`
C9_ArgumentClassification ==
    (UrlReturned /\ repo.some /\ paths # <<>>) =>
      IF Len(paths) = 1 /\ IsHashCandidate(paths[1])
        THEN /\ Len(calls) = 3
             /\ LastCall.cmd = "log"
             /\ LastCall.arg = paths[1]
             /\ out.kind = "Ok"
             /\ \/ out.text = ParsedWeb \o <<"/","c","o","m","m","i","t","/">> \o paths[1]
                \/ /\ starts_with(out.text, PullPrefix)
                   /\ Len(out.text) > Len(PullPrefix)
                   /\ AllDigits(From(out.text, Len(PullPrefix)))
        ELSE /\ Len(calls) = 2
             /\ IF Len(paths) = 1 /\ paths[1] # <<>> /\ AllDigits(paths[1])
                  THEN out = Ok(PullPrefix \o paths[1])
                  ELSE out = Ok(IF Joined = <<".">> THEN CurrentDir ELSE Joined)

C9_Witness ==
    /\ UrlReturned
    /\ repo.some
    /\ paths = << <<"9","9","9","9","9","9","9">> >>
    /\ LastCall.cmd = "log"
    /\ out = Ok(ParsedWeb \o <<"/","c","o","m","m","i","t","/">> \o paths[1])

\* the offsets of the `#` characters of a message that a digit follows
PrRefs(msg) ==
    {i \in 1..(Len(msg) - 1) : msg[i] = "#" /\ msg[i + 1] \in DigitSet}

\* C10 as stated: for a commit hash whose log message was read, the result is
\* the PR URL for the digits after the first `#` that a digit follows,
\* wherever it is in the message, and the commit URL only when the message
\* has no such `#`
C10_FirstHashDigitsAnywhere ==
    (UrlReturned /\ repo.some /\ LastCall.cmd = "log" /\ LastCall.res.kind = "Ok") =>
      LET msg == LastCall.res.text
      IN  out = Ok(IF PrRefs(msg) # {}
                     THEN PullPrefix \o span(From(msg, MinOf(PrRefs(msg))), "is_ascii_digit")[1]
                     ELSE ParsedWeb \o <<"/","c","o","m","m","i","t","/">> \o paths[1])

\* the remote lookup of a resolution, the second call it makes
RemoteCall == calls[2]

\* C11: inside a Git repository, a remote lookup that exits with status 2 (no
\* origin remote) gives NoSuchRemote("origin"); any other failure of the
\* lookup is returned unchanged (CommandFailed with its status,
\* CouldNotExecute or InvalidUtf8); a remote url that parse_git_url rejects
\* gives Spec carrying that url; in each case the resolution returns the
\* error after the lookup, for every argument list
C11_FromPathErrors ==
    (UrlReturned /\ isGit) =>
      /\ Len(calls) >= 2
      /\ RemoteCall.cmd = "remote"
      /\ RemoteCall.arg = <<"o","r","i","g","i","n">>
      /\ (RemoteCall.res.kind = "CommandFailed" /\ RemoteCall.res.code = 2) =>
           /\ out = [kind |-> "NoSuchRemote", text |-> <<"o","r","i","g","i","n">>,
                     code |-> 0]
           /\ Len(calls) = 2
      /\ (RemoteCall.res.kind # "Ok"
            /\ ~(RemoteCall.res.kind = "CommandFailed" /\ RemoteCall.res.code = 2)) =>
           /\ out = RemoteCall.res
           /\ out.kind \in {"CommandFailed", "CouldNotExecute", "InvalidUtf8"}
           /\ Len(calls) = 2
      /\ (RemoteCall.res.kind = "Ok" /\ ~parse_git_url(RemoteCall.res.text).some) =>
           /\ out = [kind |-> "Spec", text |-> RemoteCall.res.text, code |-> 0]
           /\ Len(calls) = 2
      /\ (RemoteCall.res.kind = "Ok" /\ parse_git_url(RemoteCall.res.text).some) =>
           out.kind = "Ok"

C11_Witness ==
    /\ UrlReturned
    /\ isGit
    /\ Len(paths) = 2
    /\ RemoteCall.res = [kind |-> "CommandFailed", text |-> <<>>, code |-> 2]
    /\ out.kind = "NoSuchRemote"
    /\ out.text = <<"o","r","i","g","i","n">>

\* the outcomes of a git command other than success
FailureKinds == {"CommandFailed", "CouldNotExecute", "InvalidUtf8"}

\* C13: once the repository has been built from a parseable origin remote,
\* the resolution returns Ok for every argument list and for every outcome
\* of the branch lookup and of the commit-message lookup; a failed branch
\* lookup gives the URL of branch main (the plain web URL) and a failed
\* commit-message lookup gives the commit URL for the given hash
C13_FallbacksNeverErrors ==
    (UrlReturned /\ repo.some) =>
      /\ out.kind = "Ok"
      /\ (LastCall.cmd = "symbolic-ref" /\ LastCall.res.kind \in FailureKinds) =>
           out.text = ParsedWeb
      /\ (LastCall.cmd = "log" /\ LastCall.res.kind \in FailureKinds) =>
           out.text = ParsedWeb \o <<"/","c","o","m","m","i","t","/">> \o paths[1]

C13_Witness ==
    /\ UrlReturned
    /\ repo.some
    /\ LastCall.cmd = "log"
    /\ LastCall.res.kind = "CouldNotExecute"
    /\ out = Ok(ParsedWeb \o <<"/","c","o","m","m","i","t","/">> \o paths[1])

\* the repository probe of a resolution, the first call it makes
ProbeCall == calls[1]

\* C14 as stated: a launch failure or an invalid encoding of the probe or of
\* the remote lookup is what the resolution returns
C14_ExecutorFailureSurfaced ==
    UrlReturned =>
      \A k \in 1..Len(calls) :
        (calls[k].cmd \in {"rev-parse", "remote"}
           /\ calls[k].res.kind \in {"CouldNotExecute", "InvalidUtf8"})
          => out.kind = calls[k].res.kind

\* C14 (amended): a launch failure or an invalid encoding of the remote
\* lookup is returned as that error; a failure of the probe, of any kind, is
\* not returned: the directory is taken not to be a Git repository, and the
\* result is Ok with the space-joined arguments (the working directory when
\* the join is `.`) after the probe alone
C14_ProbeFailureIsNotGit ==
    UrlReturned =>
      /\ ProbeCall.res.kind \in FailureKinds =>
           /\ ~isGit
           /\ Len(calls) = 1
           /\ out = Ok(IF Joined = <<".">> THEN CurrentDir ELSE Joined)
      /\ (Len(calls) >= 2 /\ calls[2].cmd = "remote"
            /\ calls[2].res.kind \in {"CouldNotExecute", "InvalidUtf8"}) =>
           /\ out = calls[2].res
           /\ Len(calls) = 2

C14_Witness ==
    /\ UrlReturned
    /\ ProbeCall.res.kind = "CouldNotExecute"
    /\ paths = << <<"f","o","o">> >>
    /\ out = Ok(<<"f","o","o">>)

\* the git commands a resolution may issue, all of them reads
ReadOnlyCmds == {"rev-parse", "remote", "symbolic-ref", "log"}

\* call k is the third, after a successful probe and a successful remote
\* lookup whose url parses
BuiltRepoBefore(k) ==
    /\ k = 3
    /\ calls[1].cmd = "rev-parse"
    /\ calls[1].res.kind = "Ok"
    /\ calls[2].cmd = "remote"
    /\ calls[2].res.kind = "Ok"
    /\ parse_git_url(calls[2].res.text).some

\* C15: at every point of a resolution the commands issued so far are among
\* the four read-only ones, each at most once and at most three in all; the
\* probe is the first call; the remote lookup (of origin) follows a
\* successful probe; the branch lookup follows a successful remote lookup
\* and parse and is issued only with no arguments; the log command follows a
\* successful remote lookup and parse and is issued only for a single
\* argument of 7 to 40 hex digits, which it is given
C15_CallOrder ==
    /\ Len(calls) <= 3
    /\ \A k \in 1..Len(calls) : calls[k].cmd \in ReadOnlyCmds
    /\ \A j, k \in 1..Len(calls) : calls[j].cmd = calls[k].cmd => j = k
    /\ calls # <<>> => calls[1].cmd = "rev-parse"
    /\ \A k \in 1..Len(calls) :
         /\ calls[k].cmd = "rev-parse" => k = 1
         /\ calls[k].cmd = "remote" =>
              /\ k = 2
              /\ calls[1].cmd = "rev-parse"
              /\ calls[1].res.kind = "Ok"
              /\ calls[k].arg = <<"o","r","i","g","i","n">>
         /\ calls[k].cmd = "symbolic-ref" =>
              /\ BuiltRepoBefore(k)
              /\ paths = <<>>
         /\ calls[k].cmd = "log" =>
              /\ BuiltRepoBefore(k)
              /\ Len(paths) = 1
              /\ IsHashCandidate(paths[1])
              /\ calls[k].arg = paths[1]

C15_Witness ==
    /\ pc = "done"
    /\ Len(calls) = 3
    /\ calls[1].cmd = "rev-parse"
    /\ calls[2].cmd = "remote"
    /\ calls[3].cmd = "log"
    /\ calls[3].arg = paths[1]
    /\ out.kind = "Ok"

====
